---- MODULE Spec2Model ----
(***************************************************************************)
(* A model of src/openenergyid/models.py: the TimeSeries / TimeDataFrame   *)
(* data models, their series <-> table conversions, and their JSON         *)
(* (string or file) serialisation.                                         *)
(*                                                                         *)
(* Values.  A float is modelled by an integer.  A timezone-aware datetime  *)
(* is a record [local, off]: the wall-clock reading and its UTC offset, in *)
(* hours; the instant it denotes is local - off.  A TimeSeries is a record *)
(* [name, index, data], a TimeDataFrame a record [columns, index, data].   *)
(* Python's None is the string None below, which is no member of Names.    *)
(*                                                                         *)
(* The class statement at line 121 names its base TimeSeriesBase; the only *)
(* base class the file defines is the one at lines 70-118, and the model   *)
(* takes the two subclasses to inherit to_json / from_json from it.  The   *)
(* class TimeSeries of lines 15-67 is replaced by the one of line 121 and  *)
(* is not modelled; its to_json and from_json branch as the base's do.     *)
(***************************************************************************)
EXTENDS Integers, Sequences, FiniteSets, TLC

VARIABLES
    input,      \* conversions: the value the client started from
    value,      \* conversions: the value the client holds now
    trace,      \* conversions: the methods called so far, in order
    obj,        \* JSON: the model the client holds
    fs,         \* JSON: the file system, path -> [exists, text]
    fs0,        \* JSON: the file system before the first call
    written,    \* JSON: path -> the model of the latest to_json(path=...) call,
                \*       and whether that call replaced another model's text
    call        \* JSON: the latest call, its arguments and its outcome

vars == <<input, value, trace, obj, fs, fs0, written, call>>

convVars == <<input, value, trace>>
jsonVars == <<obj, fs, fs0, written, call>>

\* ------------------------------------------------------------------ bounds

MaxRows == 2
MaxCols == 2
MaxOps == 3

Names == {"a", "b"}
Values == {0, 1}
Stamps == {[local |-> 0, off |-> 0], [local |-> 3, off |-> 1]}
Timezones == {"UTC", "Europe/Brussels"}

None == "None"

Min(a, b) == IF a < b THEN a ELSE b

Instant(ts) == ts.local - ts.off

Instants(index) == [i \in 1..Len(index) |-> Instant(index[i])]

SeqsUpTo(S, n) == UNION {[1..k -> S] : k \in 0..n}

\* ------------------------------------------------------ the data models

\* index: list[dt.datetime]; columns: list[str]; data: list[list[float]].
\* A well-shaped frame: one timestamp per row, one value per column in every
\* row (what from_pandas produces).
Frame(columns, index, rows) == [columns |-> columns, index |-> index, data |-> rows]

\* A list of TimeSeries that share one index, each with one value per timestamp:
\* the k-th series holds the k-th value of every row.
SeriesList(names, index, rows) ==
    [k \in 1..Len(names) |->
        [name |-> names[k], index |-> index, data |-> [i \in 1..Len(rows) |-> rows[i][k]]]]

\* ---------------------------------------------------------------- pandas

\* tz.utcoffset at an instant.  Brussels is UTC+1, and UTC+2 once summer time
\* has started (here: from instant 2 on).
UtcOffset(timezone, instant) ==
    IF timezone = "UTC" THEN 0
    ELSE IF instant < 2 THEN 1 ELSE 2

\* pd.to_datetime(index, utc=True): the same instants, read in UTC.
to_datetime_utc(index) ==
    [i \in 1..Len(index) |-> [local |-> Instant(index[i]), off |-> 0]]

\* DatetimeIndex.tz_convert(timezone): the same instants, read in timezone.
tz_convert(index, timezone) ==
    [i \in 1..Len(index) |->
        LET u == Instant(index[i])
        IN  [local |-> u + UtcOffset(timezone, u), off |-> UtcOffset(timezone, u)]]

\* pd.DataFrame(data, columns=..., index=...) of a list of rows: pandas refuses
\* data whose shape is not (len(index), len(columns)); otherwise the frame holds
\* one array per column.
DataFrameShapeOk(data, columns, index) ==
    /\ Len(data) = Len(index)
    /\ \A i \in 1..Len(data) : Len(data[i]) = Len(columns)

DataFrame(data, columns, index) ==
    [columns |-> columns,
     index |-> index,
     arrays |-> [k \in 1..Len(columns) |-> [i \in 1..Len(index) |-> data[i][k]]]]

\* DataFrame.values.tolist(): the rows of the frame.
values_tolist(frame) ==
    [i \in 1..Len(frame.index) |-> [k \in 1..Len(frame.columns) |-> frame.arrays[k][i]]]

\* -------------------------------------------------------- TimeDataFrame

from_pandas(data) ==
    [columns |-> data.columns, data |-> values_tolist(data), index |-> data.index]

to_pandas_localize(self, timezone) ==
    LET frame == DataFrame(self.data, self.columns, self.index)
    IN  [frame EXCEPT !.index =
            [i \in 1..Len(self.index) |->
                [local |-> self.index[i].local,
                 off |-> UtcOffset(timezone, self.index[i].local)]]]

to_pandas(self, timezone) ==
    LET frame == DataFrame(self.data, self.columns, self.index)
        utc == [frame EXCEPT !.index = to_datetime_utc(frame.index)]
    IN  [utc EXCEPT !.index = tz_convert(utc.index, timezone)]

\* data must be non-empty: data[0] raises IndexError otherwise.
from_timeseries(data) ==
    [columns |-> [k \in 1..Len(data) |-> data[k].name],
     data |-> [k \in 1..Len(data) |-> data[k].data],
     index |-> data[1].index]

\* zip(self.columns, self.data) stops at the shorter of the two.
to_timeseries(self) ==
    [k \in 1..Min(Len(self.columns), Len(self.data)) |->
        [name |-> self.columns[k], data |-> self.data[k], index |-> self.index]]

\* ------------------------------------------------- conversions: actions

InitConv ==
    /\ \E m \in 0..MaxRows : \E n \in 0..MaxCols :
       \E names \in [1..n -> Names] : \E index \in [1..m -> Stamps] :
       \E rows \in [1..m -> [1..n -> Values]] :
        \/ input = [kind |-> "frame", v |-> Frame(names, index, rows)]
        \/ input = [kind |-> "series", v |-> SeriesList(names, index, rows)]
    /\ value = input
    /\ trace = <<>>
    /\ obj = [cls |-> "none"]
    /\ fs = <<>>
    /\ fs0 = <<>>
    /\ written = <<>>
    /\ call = [op |-> "none"]

ToTimeseries ==
    /\ value.kind = "frame"
    /\ Len(trace) < MaxOps
    /\ value' = [kind |-> "series", v |-> to_timeseries(value.v)]
    /\ trace' = Append(trace, "to_timeseries")
    /\ UNCHANGED <<input, jsonVars>>

FromTimeseries ==
    /\ value.kind = "series"
    /\ Len(trace) < MaxOps
    /\ value' = IF Len(value.v) = 0
                THEN [kind |-> "IndexError", v |-> <<>>]
                ELSE [kind |-> "frame", v |-> from_timeseries(value.v)]
    /\ trace' = Append(trace, "from_timeseries")
    /\ UNCHANGED <<input, jsonVars>>

ToPandas ==
    /\ value.kind = "frame"
    /\ Len(trace) < MaxOps
    /\ \E timezone \in Timezones :
        value' = IF DataFrameShapeOk(value.v.data, value.v.columns, value.v.index)
                 THEN [kind |-> "table", v |-> to_pandas(value.v, timezone), tz |-> timezone]
                 ELSE [kind |-> "ValueError", v |-> <<>>]
    /\ trace' = Append(trace, "to_pandas")
    /\ UNCHANGED <<input, jsonVars>>

FromPandas ==
    /\ value.kind = "table"
    /\ Len(trace) < MaxOps
    /\ value' = [kind |-> "frame", v |-> from_pandas(value.v)]
    /\ trace' = Append(trace, "from_pandas")
    /\ UNCHANGED <<input, jsonVars>>

NextConv == ToTimeseries \/ FromTimeseries \/ ToPandas \/ FromPandas

SpecConv == InitConv /\ [][NextConv]_vars

\* ------------------------------------------------------------ JSON text

\* A JSON text is a sequence of tokens; the empty string is the empty sequence.
\* A token is a punctuation mark, null, a number, a string, or a string that
\* holds an ISO 8601 datetime with its UTC offset.
Punct(k) == [k |-> k, s |-> "", n |-> 0, m |-> 0]
StrTok(s) == [k |-> "str", s |-> s, n |-> 0, m |-> 0]
NumTok(n) == [k |-> "num", s |-> "", n |-> n, m |-> 0]
IsoTok(ts) == [k |-> "iso", s |-> "", n |-> ts.local, m |-> ts.off]
NullTok == Punct("null")

RECURSIVE Join(_)
Join(items) ==
    IF Len(items) = 0 THEN <<>>
    ELSE IF Len(items) = 1 THEN items[1]
    ELSE items[1] \o <<Punct(",")>> \o Join(Tail(items))

JsonArray(items) == <<Punct("[")>> \o Join(items) \o <<Punct("]")>>

\* members: a sequence of [key, text] records.
JsonObject(members) ==
    <<Punct("{")>>
    \o Join([i \in 1..Len(members) |->
                <<StrTok(members[i].key), Punct(":")>> \o members[i].text])
    \o <<Punct("}")>>

\* The position after the JSON value that starts at position i, 0 if none does.
RECURSIVE SkipValue(_, _), SkipItems(_, _), SkipMembers(_, _)
SkipValue(t, i) ==
    IF i > Len(t) THEN 0
    ELSE IF t[i].k \in {"str", "iso", "num", "null"} THEN i + 1
    ELSE IF t[i].k = "[" THEN
        IF i + 1 <= Len(t) /\ t[i + 1].k = "]" THEN i + 2 ELSE SkipItems(t, i + 1)
    ELSE IF t[i].k = "{" THEN
        IF i + 1 <= Len(t) /\ t[i + 1].k = "}" THEN i + 2 ELSE SkipMembers(t, i + 1)
    ELSE 0

SkipItems(t, i) ==
    LET j == SkipValue(t, i)
    IN  IF j = 0 \/ j > Len(t) THEN 0
        ELSE IF t[j].k = "," THEN SkipItems(t, j + 1)
        ELSE IF t[j].k = "]" THEN j + 1
        ELSE 0

SkipMembers(t, i) ==
    IF i + 1 > Len(t) \/ t[i].k \notin {"str", "iso"} \/ t[i + 1].k # ":" THEN 0
    ELSE LET j == SkipValue(t, i + 2)
         IN  IF j = 0 \/ j > Len(t) THEN 0
             ELSE IF t[j].k = "," THEN SkipMembers(t, j + 1)
             ELSE IF t[j].k = "}" THEN j + 1
             ELSE 0

\* The text is one JSON value and nothing else.
ValidJson(t) == Len(t) > 0 /\ SkipValue(t, 1) = Len(t) + 1

\* The elements of the array a (a valid JSON text that starts with "["), each
\* a text of its own.
RECURSIVE ItemsFrom(_, _)
ItemsFrom(a, i) ==
    IF a[i].k = "]" THEN <<>>
    ELSE LET j == SkipValue(a, i)
         IN  <<SubSeq(a, i, j - 1)>>
             \o (IF a[j].k = "," THEN ItemsFrom(a, j + 1) ELSE <<>>)

ArrayItems(a) == ItemsFrom(a, 2)

\* The members of the object o (a valid JSON text that starts with "{").
RECURSIVE MembersFrom(_, _)
MembersFrom(o, i) ==
    IF o[i].k = "}" THEN <<>>
    ELSE LET j == SkipValue(o, i + 2)
         IN  <<[key |-> o[i], text |-> SubSeq(o, i + 2, j - 1)]>>
             \o (IF o[j].k = "," THEN MembersFrom(o, j + 1) ELSE <<>>)

ObjectMembers(o) == MembersFrom(o, 2)

HasMember(members, key) == \E i \in 1..Len(members) : members[i].key = StrTok(key)

\* A repeated key keeps its last value.
MemberText(members, key) ==
    LET last == CHOOSE i \in 1..Len(members) :
                    /\ members[i].key = StrTok(key)
                    /\ \A j \in (i + 1)..Len(members) : members[j].key # StrTok(key)
    IN  members[last].text

\* ---------------------------------------------------- pydantic: the schema

Classes == {"TimeSeries", "TimeDataFrame"}

\* No model: what a caller holds before it has one, and what a failed call gives.
NoModel == [cls |-> "none"]

\* The outcome of a call: the exception raised, or the model returned.
Raised(kind) == [kind |-> kind, model |-> NoModel]
Returned(model) == [kind |-> "ok", model |-> model]

\* Field order: the base class's index first, then the subclass's own fields.
Fields(cls) ==
    IF cls = "TimeSeries" THEN <<"index", "name", "data">>
    ELSE <<"index", "columns", "data">>

FieldSet(cls) == {Fields(cls)[i] : i \in 1..Len(Fields(cls))}

\* name has a default; every other field is required.
Required(cls) ==
    IF cls = "TimeSeries" THEN {"index", "data"} ELSE {"index", "columns", "data"}

FieldType(cls, field) ==
    IF field = "index" THEN "list[datetime]"
    ELSE IF field = "name" THEN "Optional[str]"
    ELSE IF field = "columns" THEN "list[str]"
    ELSE IF cls = "TimeSeries" THEN "list[float]"
    ELSE "list[list[float]]"

IsArrayOf(text, kinds) ==
    /\ text[1].k = "["
    /\ \A i \in 1..Len(ArrayItems(text)) :
        Len(ArrayItems(text)[i]) = 1 /\ ArrayItems(text)[i][1].k \in kinds

\* Whether a JSON value is accepted for a field of the given type.  (No name of
\* Names reads as a datetime, so a name is always a plain string token.)
JsonHasType(text, type) ==
    IF type = "list[datetime]" THEN IsArrayOf(text, {"iso"})
    ELSE IF type = "list[float]" THEN IsArrayOf(text, {"num"})
    ELSE IF type = "list[str]" THEN IsArrayOf(text, {"str"})
    ELSE IF type = "Optional[str]" THEN Len(text) = 1 /\ text[1].k \in {"str", "null"}
    ELSE /\ text[1].k = "["
         /\ \A i \in 1..Len(ArrayItems(text)) : IsArrayOf(ArrayItems(text)[i], {"num"})

\* The Python value of a JSON value of the given type.
JsonValue(text, type) ==
    IF type = "list[datetime]"
    THEN [i \in 1..Len(ArrayItems(text)) |->
            [local |-> ArrayItems(text)[i][1].n, off |-> ArrayItems(text)[i][1].m]]
    ELSE IF type = "list[float]"
    THEN [i \in 1..Len(ArrayItems(text)) |-> ArrayItems(text)[i][1].n]
    ELSE IF type = "list[str]"
    THEN [i \in 1..Len(ArrayItems(text)) |-> ArrayItems(text)[i][1].s]
    ELSE IF type = "Optional[str]"
    THEN (IF text[1].k = "null" THEN None ELSE text[1].s)
    ELSE [i \in 1..Len(ArrayItems(text)) |->
            [j \in 1..Len(ArrayItems(ArrayItems(text)[i])) |->
                ArrayItems(ArrayItems(text)[i])[j][1].n]]

\* The JSON value of a field's Python value.
JsonOf(v, type) ==
    IF type = "list[datetime]" THEN JsonArray([i \in 1..Len(v) |-> <<IsoTok(v[i])>>])
    ELSE IF type = "list[float]" THEN JsonArray([i \in 1..Len(v) |-> <<NumTok(v[i])>>])
    ELSE IF type = "list[str]" THEN JsonArray([i \in 1..Len(v) |-> <<StrTok(v[i])>>])
    ELSE IF type = "Optional[str]" THEN (IF v = None THEN <<NullTok>> ELSE <<StrTok(v)>>)
    ELSE JsonArray([i \in 1..Len(v) |->
                      JsonArray([j \in 1..Len(v[i]) |-> <<NumTok(v[i][j])>>])])

\* The members model_dump_json writes, in field order.
DumpMembers(self) ==
    [i \in 1..Len(Fields(self.cls)) |->
        [key |-> Fields(self.cls)[i],
         text |-> JsonOf(self[Fields(self.cls)[i]], FieldType(self.cls, Fields(self.cls)[i]))]]

model_dump_json(self) == JsonObject(DumpMembers(self))

\* The model of a JSON object with the given members; extra members are ignored.
ModelOfMembers(cls, members) ==
    IF cls = "TimeSeries"
    THEN [cls |-> cls,
          index |-> JsonValue(MemberText(members, "index"), "list[datetime]"),
          name |-> IF HasMember(members, "name")
                   THEN JsonValue(MemberText(members, "name"), "Optional[str]")
                   ELSE None,
          data |-> JsonValue(MemberText(members, "data"), "list[float]")]
    ELSE [cls |-> cls,
          index |-> JsonValue(MemberText(members, "index"), "list[datetime]"),
          columns |-> JsonValue(MemberText(members, "columns"), "list[str]"),
          data |-> JsonValue(MemberText(members, "data"), "list[list[float]]")]

\* cls.model_validate_json(text): the fields are checked for presence and type,
\* and for nothing else.
model_validate_json(cls, text) ==
    IF ~ValidJson(text) \/ text[1].k # "{" THEN Raised("ValidationError")
    ELSE LET members == ObjectMembers(text)
         IN  IF /\ \A f \in Required(cls) : HasMember(members, f)
                /\ \A i \in 1..Len(Fields(cls)) :
                    HasMember(members, Fields(cls)[i])
                    => JsonHasType(MemberText(members, Fields(cls)[i]),
                                   FieldType(cls, Fields(cls)[i]))
             THEN Returned(ModelOfMembers(cls, members))
             ELSE Raised("ValidationError")

\* ------------------------------------------- pydantic: direct construction

\* A keyword argument: a Python value and its type.
Py(ty, v) == [ty |-> ty, v |-> v]

PyHasType(arg, type) ==
    IF type = "Optional[str]" THEN arg.ty \in {"str", "NoneType"} ELSE arg.ty = type

ModelOfKwargs(cls, kwargs) ==
    IF cls = "TimeSeries"
    THEN [cls |-> cls,
          index |-> kwargs["index"].v,
          name |-> IF "name" \in DOMAIN kwargs THEN kwargs["name"].v ELSE None,
          data |-> kwargs["data"].v]
    ELSE [cls |-> cls,
          index |-> kwargs["index"].v,
          columns |-> kwargs["columns"].v,
          data |-> kwargs["data"].v]

Construct_checks_lengths(cls, kwargs) ==
    IF /\ \A f \in Required(cls) : f \in DOMAIN kwargs
       /\ \A f \in DOMAIN kwargs \cap FieldSet(cls) : PyHasType(kwargs[f], FieldType(cls, f))
       /\ Len(kwargs["index"].v) = Len(kwargs["data"].v)
    THEN Returned(ModelOfKwargs(cls, kwargs))
    ELSE Raised("ValidationError")

\* cls(**kwargs): the class bodies declare the fields and no validator.
Construct(cls, kwargs) ==
    IF /\ \A f \in Required(cls) : f \in DOMAIN kwargs
       /\ \A f \in DOMAIN kwargs \cap FieldSet(cls) : PyHasType(kwargs[f], FieldType(cls, f))
    THEN Returned(ModelOfKwargs(cls, kwargs))
    ELSE Raised("ValidationError")

\* ------------------------------------------------- to_json and from_json

Paths == {"p", "q"}

\* A path argument: None, or the path of a file.
PathArgs == {None} \cup Paths

NoFile == [exists |-> FALSE, text |-> <<>>]
File(text) == [exists |-> TRUE, text |-> text]

\* A string argument: None, or a text (the empty one included).
NoString == [given |-> FALSE, text |-> <<>>]
String(text) == [given |-> TRUE, text |-> text]

\* What a to_json call returns: None, or a text.
ReturnsNone == [some |-> FALSE, text |-> <<>>]
ReturnsText(text) == [some |-> TRUE, text |-> text]

to_json_append(self, path, files) ==
    IF path = None
    THEN [kind |-> "ok", ret |-> ReturnsText(model_dump_json(self)), fs |-> files]
    ELSE [kind |-> "ok",
          ret |-> ReturnsNone,
          fs |-> [files EXCEPT ![path] = File(files[path].text \o model_dump_json(self))]]

\* open(path, "w") creates the file, or empties the one that is there.
to_json(self, path, files) ==
    IF path = None
    THEN [kind |-> "ok", ret |-> ReturnsText(model_dump_json(self)), fs |-> files]
    ELSE [kind |-> "ok",
          ret |-> ReturnsNone,
          fs |-> [files EXCEPT ![path] = File(model_dump_json(self))]]

\* Python's truth value of the two arguments: None and the empty string are false.
StringIsTrue(string) == string.given /\ Len(string.text) > 0
PathIsTrue(path) == path # None /\ path # ""

ArgumentError == "ValueError: Either string or path must be provided."

from_json_string_only(cls, string, path, files) ==
    IF StringIsTrue(string)
    THEN [opened |-> FALSE, out |-> model_validate_json(cls, string.text)]
    ELSE [opened |-> FALSE, out |-> Raised(ArgumentError)]

\* opened: whether the call opened the path.
from_json(cls, string, path, files) ==
    IF StringIsTrue(string)
    THEN [opened |-> FALSE, out |-> model_validate_json(cls, string.text)]
    ELSE IF PathIsTrue(path)
    THEN [opened |-> TRUE,
          out |-> IF files[path].exists
                  THEN model_validate_json(cls, files[path].text)
                  ELSE Raised("FileNotFoundError")]
    ELSE [opened |-> FALSE, out |-> Raised(ArgumentError)]

\* ---------------------------------------------------------- JSON: inputs

MaxLen == 2
MaxJsonCols == 1

\* The indexes of the JSON inputs: up to MaxLen timestamps, alternating between
\* the two readings.
StampAt(i) == IF i % 2 = 0 THEN [local |-> 0 + i, off |-> 0] ELSE [local |-> 3 + i, off |-> 1]

Indexes(m) == {[i \in 1..m |-> StampAt(i + phase)] : phase \in {0, 1}}

\* The keyword arguments of a well-typed TimeSeries(...) call; index and data
\* need not have the same length.
SeriesKwargs ==
    {[index |-> Py("list[datetime]", i),
      data |-> Py("list[float]", d),
      name |-> Py(IF n = None THEN "NoneType" ELSE "str", n)]
     : i \in UNION {Indexes(m) : m \in 0..MaxLen},
       d \in SeqsUpTo(Values, MaxLen),
       n \in Names \cup {None}}

\* The data of the JSON input frames: m rows of n values, every cell another value.
Tables(m, n) == {[i \in 1..m |-> [k \in 1..n |-> (i - 1) * n + k + first]] : first \in Values}

\* The keyword arguments of a well-typed, well-shaped TimeDataFrame(...) call.
FrameKwargs ==
    UNION {UNION {{[index |-> Py("list[datetime]", i),
                    columns |-> Py("list[str]", c),
                    data |-> Py("list[list[float]]", d)]
                   : i \in Indexes(m), c \in [1..n -> Names], d \in Tables(m, n)}
                  : n \in 0..MaxJsonCols}
           : m \in 0..MaxLen}

Kwargs(cls) == IF cls = "TimeSeries" THEN SeriesKwargs ELSE FrameKwargs

\* What a caller may get wrong: leave a field out, or pass a value of another type.
AsIs == [edit |-> "asis", field |-> ""]
Edits(cls) ==
    {AsIs} \cup {[edit |-> e, field |-> f] : e \in {"omit", "mistype"}, f \in FieldSet(cls)}

EditKwargs(kwargs, e) ==
    IF e.edit = "omit" THEN [f \in DOMAIN kwargs \ {e.field} |-> kwargs[f]]
    ELSE IF e.edit = "mistype" THEN [kwargs EXCEPT ![e.field] = Py("int", 7)]
    ELSE kwargs

EditMembers(members, e) ==
    IF e.edit = "omit"
    THEN LET Keep(mem) == mem.key # e.field IN SelectSeq(members, Keep)
    ELSE IF e.edit = "mistype"
    THEN [i \in 1..Len(members) |->
            IF members[i].key = e.field
            THEN [members[i] EXCEPT !.text = <<NumTok(7)>>]
            ELSE members[i]]
    ELSE members

\* The string arguments of a caller that holds the model self: None, the empty
\* string, the model's JSON, that JSON with a field left out or of another type,
\* and that JSON cut short.
Absent == [edit |-> "none", field |-> ""]
Empty == [edit |-> "empty", field |-> ""]
Truncated == [edit |-> "truncate", field |-> ""]

StringOf(self, e) ==
    IF e.edit = "none" THEN NoString
    ELSE IF e.edit = "empty" THEN String(<<>>)
    ELSE IF e.edit = "truncate"
    THEN String(SubSeq(model_dump_json(self), 1, Len(model_dump_json(self)) - 1))
    ELSE String(JsonObject(EditMembers(DumpMembers(self), e)))

\* The (string, path) arguments of a from_json call: no path or any path with
\* None, the empty string and the model's JSON; no path with the faulty texts.
FromJsonArgs(self) ==
    {<<e, path>> : e \in {Absent, Empty} \cup (IF self = NoModel THEN {} ELSE {AsIs}),
                   path \in PathArgs}
    \cup {<<e, None>> : e \in IF self = NoModel THEN {}
                               ELSE (Edits(self.cls) \ {AsIs}) \cup {Truncated}}

\* The file an earlier run of the program left behind.
Legacy ==
    [cls |-> "TimeSeries", index |-> <<[local |-> 3, off |-> 1]>>, name |-> "b", data |-> <<1>>]

InitialFiles == [p \in Paths |-> IF p = "q" THEN File(model_dump_json(Legacy)) ELSE NoFile]

\* ---------------------------------------------------------- JSON: actions

NoCall ==
    [op |-> "none", cls |-> "none", self |-> NoModel, edit |-> [edit |-> "asis", field |-> ""],
     path |-> None, kind |-> "ok", model |-> NoModel, ret |-> ReturnsNone, opened |-> FALSE]

NeverWritten == [model |-> NoModel, replaced |-> FALSE]

\* An exception is not caught: it ends the run.
Running == call.kind = "ok"

InitJson ==
    /\ input = [kind |-> "none"]
    /\ value = [kind |-> "none"]
    /\ trace = <<>>
    /\ obj = NoModel
    /\ fs0 = InitialFiles
    /\ fs = fs0
    /\ written = [p \in Paths |-> NeverWritten]
    /\ call = NoCall

\* The call record of the latest call.
Called(op, cls, self, e, path, kind, model, ret, opened) ==
    [op |-> op, cls |-> cls, self |-> self, edit |-> e, path |-> path,
     kind |-> kind, model |-> model, ret |-> ret, opened |-> opened]

Constructed(cls, kwargs, e, r) ==
    /\ obj' = r.model
    /\ call' = Called("construct", cls, ModelOfKwargs(cls, kwargs), e, None,
                      r.kind, r.model, ReturnsNone, FALSE)

\* cls(**kwargs), by a caller that holds no model yet.
ConstructModel ==
    /\ Running
    /\ obj = NoModel
    /\ \E cls \in Classes : \E kwargs \in Kwargs(cls) : \E e \in Edits(cls) :
        Constructed(cls, kwargs, e, Construct(cls, EditKwargs(kwargs, e)))
    /\ UNCHANGED <<fs, fs0, written, convVars>>

Dumped(path, r) ==
    /\ fs' = r.fs
    /\ written' = IF path \in Paths
                   THEN [written EXCEPT ![path] =
                            [model |-> obj,
                             replaced |-> written[path].model \notin {NoModel, obj}]]
                   ELSE written
    /\ call' = Called("to_json", obj.cls, obj, AsIs, path, r.kind, NoModel, r.ret, FALSE)

\* obj.to_json(path)
ToJson ==
    /\ Running
    /\ obj # NoModel
    /\ \E path \in PathArgs : Dumped(path, to_json(obj, path, fs))
    /\ UNCHANGED <<obj, fs0, convVars>>

Loaded(cls, e, path, r) ==
    /\ obj' = IF r.out.kind = "ok" /\ r.opened THEN r.out.model ELSE obj
    /\ call' = Called("from_json", cls, obj, e, path, r.out.kind, r.out.model,
                      ReturnsNone, r.opened)

\* cls.from_json(string, path); the caller goes on with the model a file gave it.
FromJson ==
    /\ Running
    /\ \E cls \in (IF obj = NoModel THEN Classes ELSE {obj.cls}) :
       \E args \in FromJsonArgs(obj) :
        Loaded(cls, args[1], args[2], from_json(cls, StringOf(obj, args[1]), args[2], fs))
    /\ UNCHANGED <<fs, fs0, written, convVars>>

NextJson == ConstructModel \/ ToJson \/ FromJson

SpecJson == InitJson /\ [][NextJson]_vars

\* ------------------------------------------------- conversions: claims

SeriesInvariant(s) == Len(s.index) = Len(s.data)

FrameInvariant(f) ==
    /\ Len(f.index) = Len(f.data)
    /\ \A i \in 1..Len(f.data) : Len(f.data[i]) = Len(f.columns)

StartedFromFrame == input.kind = "frame"
StartedFromSeries == input.kind = "series"

\* C1: for a frame t with m >= 1 rows and n >= 1 columns,
\* from_timeseries(t.to_timeseries()) has the columns, the index and the data of t.
C1_DecomposeReassembleInverse ==
    (/\ StartedFromFrame
     /\ Len(input.v.index) >= 1
     /\ Len(input.v.columns) >= 1
     /\ trace = <<"to_timeseries", "from_timeseries">>)
    => (/\ value.kind = "frame"
        /\ value.v.columns = input.v.columns
        /\ value.v.index = input.v.index
        /\ value.v.data = input.v.data)

\* C2: from_timeseries of a non-empty list s_1..s_n sharing an index of length m
\* gives columns [s_k.name], the index of s_1, and m rows, row i being
\* [s_1.data[i], ..., s_n.data[i]].
C2_FromTimeseriesRowMajor ==
    (/\ StartedFromSeries
     /\ Len(input.v) >= 1
     /\ trace = <<"from_timeseries">>)
    => (/\ value.kind = "frame"
        /\ value.v.columns = [k \in 1..Len(input.v) |-> input.v[k].name]
        /\ value.v.index = input.v[1].index
        /\ value.v.data = [i \in 1..Len(input.v[1].index) |->
                              [k \in 1..Len(input.v) |-> input.v[k].data[i]]])

\* C3: to_timeseries of a frame with columns c_1..c_n and rows r_1..r_m gives
\* exactly n series, the k-th named c_k, with the frame's index and the values
\* [r_1[k], ..., r_m[k]].
C3_ToTimeseriesPerColumn ==
    (/\ StartedFromFrame
     /\ trace = <<"to_timeseries">>)
    => (/\ value.kind = "series"
        /\ Len(value.v) = Len(input.v.columns)
        /\ \A k \in 1..Len(value.v) :
            /\ value.v[k].name = input.v.columns[k]
            /\ value.v[k].index = input.v.index
            /\ value.v[k].data = [i \in 1..Len(input.v.data) |-> input.v.data[i][k]])

\* C6: for a well-shaped frame t and every timezone, from_pandas(t.to_pandas(tz))
\* has the columns and the row-major data of t and an index denoting the same
\* instants in the same order.
C6_TableRoundTrip ==
    (/\ StartedFromFrame
     /\ trace = <<"to_pandas", "from_pandas">>)
    => (/\ value.kind = "frame"
        /\ value.v.columns = input.v.columns
        /\ value.v.data = input.v.data
        /\ Instants(value.v.index) = Instants(input.v.index))

\* A 2 x 2 frame whose data is not symmetric, back from a table whose timezone
\* changed the reading of a timestamp.
C6_Witness ==
    /\ StartedFromFrame
    /\ trace = <<"to_pandas", "from_pandas">>
    /\ value.kind = "frame"
    /\ Len(input.v.index) = 2
    /\ Len(input.v.columns) = 2
    /\ input.v.columns[1] # input.v.columns[2]
    /\ input.v.data[1][2] # input.v.data[2][1]
    /\ value.v.index # input.v.index
    /\ value.v.data = input.v.data

\* C8: from a frame satisfying its invariants, every value reached by to_timeseries
\* and from_timeseries calls satisfies its own: a series has one value per
\* timestamp, a frame one row per timestamp and one value per column in each row.
C8_InvariantsPreserved ==
    (/\ StartedFromFrame
     /\ FrameInvariant(input.v)
     /\ \A i \in 1..Len(trace) : trace[i] \in {"to_timeseries", "from_timeseries"})
    => (/\ value.kind = "series" => \A k \in 1..Len(value.v) : SeriesInvariant(value.v[k])
        /\ value.kind = "frame" => FrameInvariant(value.v))

\* -------------------------------------------------------- JSON: claims

\* The string argument of the latest from_json call.
CallString == StringOf(call.self, call.edit)

\* Field-wise equality; datetimes are equal when they denote the same instant.
SameModel(a, b) ==
    /\ a.cls = b.cls
    /\ a.cls # "none"
    /\ Instants(a.index) = Instants(b.index)
    /\ a.data = b.data
    /\ IF a.cls = "TimeSeries" THEN a.name = b.name ELSE a.columns = b.columns

\* What parsing the text alone gives.
SameOutcome(text) ==
    /\ call.kind = model_validate_json(call.cls, text).kind
    /\ call.model = model_validate_json(call.cls, text).model

\* C4: from_json with neither string nor path raises the ValueError 'Either string
\* or path must be provided.'; with both a string and a path the result is the
\* parse of the string and the path is never opened.
C4_ArgumentExclusivity ==
    call.op = "from_json"
    => (/\ (~CallString.given /\ call.path = None) => call.kind = ArgumentError
        /\ (CallString.given /\ call.path # None)
            => (SameOutcome(CallString.text) /\ ~call.opened))

\* C10: whenever a string is supplied, whatever its content, the outcome of
\* from_json is the outcome of parsing that string, the path is not opened and the
\* 'Either string or path must be provided.' error is not raised; that error is
\* raised only when neither a string nor a path was supplied.
C10_SourceChosenByArgumentGiven ==
    call.op = "from_json"
    => (/\ CallString.given
            => (/\ SameOutcome(CallString.text)
                /\ ~call.opened
                /\ call.kind # ArgumentError)
        /\ call.kind = ArgumentError => (~CallString.given /\ call.path = None))

C7_ToJsonFileEffect ==
    /\ \A p \in Paths :
        fs[p] = IF written[p].model = NoModel
                THEN fs0[p]
                ELSE File(model_dump_json(written[p].model))
    /\ (call.op = "to_json" /\ call.path = None)
        => (call.kind = "ok" /\ call.ret = ReturnsText(model_dump_json(call.self)))
    /\ (call.op = "to_json" /\ call.path \in Paths)
        => (call.kind = "ok" /\ call.ret = ReturnsNone)

\* to_json(path="p") has just replaced the JSON an earlier to_json(path="p") wrote
\* for another model, and "q", never written, still holds its initial text.
C7_Witness ==
    /\ call.op = "to_json"
    /\ call.path = "p"
    /\ call.ret = ReturnsNone
    /\ written["p"].model = call.self
    /\ written["p"].replaced
    /\ fs["p"] = File(model_dump_json(call.self))
    /\ written["q"].model = NoModel
    /\ fs0["q"].exists
    /\ fs["q"] = fs0["q"]

\* The latest call validated an input: keyword arguments, or a JSON object.
CallValidated ==
    \/ call.op = "construct"
    \/ call.op = "from_json" /\ call.self # NoModel /\ call.edit \in Edits(call.cls)

\* The latest input left a required field out, or gave a field another type.
CallFaulty ==
    \/ call.edit.edit = "mistype"
    \/ (call.edit.edit = "omit" /\ call.edit.field \in Required(call.cls))

\* C9: a TimeSeries whose index has m timestamps and whose data has n values,
\* m # n included, is accepted by direct construction and by from_json, and the
\* model carries the index and the data as given; an input is rejected, with a
\* ValidationError, only when a required field is missing or a field has the
\* wrong type.
C9_LengthMismatchUnenforced ==
    CallValidated
    => (/\ call.edit = AsIs
            => (/\ call.kind = "ok"
                /\ call.model.index = call.self.index
                /\ call.model.data = call.self.data)
        /\ call.kind # "ok" => (call.kind = "ValidationError" /\ CallFaulty)
        /\ CallFaulty => call.kind = "ValidationError")

\* The JSON of a series with two timestamps and one value has just been parsed.
C9_Witness ==
    /\ call.op = "from_json"
    /\ call.edit = AsIs
    /\ call.cls = "TimeSeries"
    /\ Len(call.self.index) = 2
    /\ Len(call.self.data) = 1
    /\ call.kind = "ok"
    /\ Len(call.model.index) = 2
    /\ Len(call.model.data) = 1

====
